---------------------------- MODULE Spec2Model ----------------------------
(***************************************************************************)
(* Model of the file sender in filesharetest.py: a file is compressed      *)
(* (zlib), base64-encoded, split into text chunks, and written to the      *)
(* document store as one manifest document files/{file_id} plus one        *)
(* document files/{file_id}/chunks/{idx} per chunk.                        *)
(*                                                                         *)
(* Bytes are integers 0..255, a text is a sequence of one-character        *)
(* strings.  Several browser sessions share the module-level db handle     *)
(* and run send_file_to_firestore interleaved; every store write may       *)
(* raise, which the button handler catches.                                *)
(***************************************************************************)
EXTENDS Integers, Sequences, FiniteSets, TLC

VARIABLES
    files,        \* collection 'files': file_id -> manifest document
    chunk_docs,   \* subcollections 'chunks': <<file_id, idx>> -> chunk document
    minted,       \* the identifiers uuid.uuid4() has returned so far
    pc,           \* per session: where its run of the button handler stands
    file_name,    \* per session: locals of send_file_to_firestore
    file_bytes,
    chunk_size,
    chunks,
    total_chunks,
    file_id,
    idx,
    ct_text,      \* chunk_text applied on its own: its arguments and result
    ct_size,
    ct_out

store == <<files, chunk_docs>>
locals == <<file_name, file_bytes, chunk_size, chunks, total_chunks, file_id, idx>>
pure == <<ct_text, ct_size, ct_out>>
vars == <<files, chunk_docs, minted, pc, file_name, file_bytes, chunk_size, chunks,
          total_chunks, file_id, idx, ct_text, ct_size, ct_out>>

(***************************************************************************)
(* Bounds of the model.                                                    *)
(***************************************************************************)
\* longest uploaded file, in bytes (at most 3: see zlib_compress)
MaxBytes == 1
\* chunk sizes offered are ChunkStep, 2*ChunkStep, .., MaxChunkMul*ChunkStep
ChunkStep == 4
MaxChunkMul == 3
\* longest text and largest chunk size given to chunk_text on its own
MaxTextLen == 6
MaxPureChunk == 4

\* byte values of uploaded files: one with an 8-bit and one with a 9-bit
\* literal code in the fixed Huffman table
ByteVals == {97, 200}
\* characters of the texts given to chunk_text on its own
TextChars == {"A", "="}
\* the values uuid.uuid4() can return
FileIds == {"u1", "u2"}
\* browser sessions sharing the db handle
Sessions == {"s1", "s2"}
ChunkSizes == {ChunkStep * k : k \in 1..MaxChunkMul}

RECURSIVE SeqsUpTo(_, _)
SeqsUpTo(S, n) ==
    IF n = 0 THEN {<<>>}
    ELSE LET shorter == SeqsUpTo(S, n - 1)
         IN  shorter \cup {Append(q, x) : q \in {r \in shorter : Len(r) = n - 1}, x \in S}

ByteStrings == SeqsUpTo(ByteVals, MaxBytes)

\* the files a user can pick in the uploader (line 108): a name and the bytes
UploadName(data) == IF data = <<>> THEN "empty.bin" ELSE "data.bin"
Uploads == {[name |-> UploadName(b), bytes |-> b] : b \in ByteStrings}

Min(a, b) == IF a < b THEN a ELSE b

RECURSIVE Pow2(_)
Pow2(n) == IF n = 0 THEN 1 ELSE 2 * Pow2(n - 1)

RECURSIVE Flatten(_)
Flatten(ss) == IF ss = <<>> THEN <<>> ELSE Head(ss) \o Flatten(Tail(ss))

(***************************************************************************)
(* zlib.compress(file_bytes, level=9)                                      *)
(***************************************************************************)
\* n bits of v, most significant first (Huffman codes)
BitsMSB(v, n) == [i \in 1..n |-> (v \div Pow2(n - i)) % 2]

\* code of a literal byte in deflate's fixed Huffman table (RFC 1951 3.2.6)
FixedCode(lit) ==
    IF lit < 144 THEN BitsMSB(48 + lit, 8) ELSE BitsMSB(400 + (lit - 144), 9)

\* the deflate stream: one final block (BFINAL=1) of type 01 (fixed Huffman),
\* the literals, the 7-bit end-of-block code
DeflateBits(bytes) ==
    <<1, 1, 0>> \o Flatten([i \in 1..Len(bytes) |-> FixedCode(bytes[i])]) \o BitsMSB(0, 7)

\* bits packed into bytes from the least significant bit, zero padded
PackBits(bits) ==
    LET n == (Len(bits) + 7) \div 8
        bit(j) == IF j <= Len(bits) THEN bits[j] ELSE 0
        byte(k) == bit(8*k+1) + 2*bit(8*k+2) + 4*bit(8*k+3) + 8*bit(8*k+4)
                   + 16*bit(8*k+5) + 32*bit(8*k+6) + 64*bit(8*k+7) + 128*bit(8*k+8)
    IN  [k \in 1..n |-> byte(k - 1)]

RECURSIVE AdlerPair(_)
AdlerPair(bytes) ==
    IF bytes = <<>> THEN <<1, 0>>
    ELSE LET p  == AdlerPair(SubSeq(bytes, 1, Len(bytes) - 1))
             s1 == (p[1] + bytes[Len(bytes)]) % 65521
         IN  <<s1, (p[2] + s1) % 65521>>

adler32(bytes) == AdlerPair(bytes)[2] * 65536 + AdlerPair(bytes)[1]

BigEndian32(v) ==
    <<(v \div 16777216) % 256, (v \div 65536) % 256, (v \div 256) % 256, v % 256>>

\* Header 78 DA (deflate, 32K window, level 9), the deflate stream, Adler-32.
\* An input shorter than 4 bytes has no match of the minimum length 3, and
\* zlib emits it as one fixed-Huffman block of literals.
zlib_compress(bytes) ==
    <<120, 218>> \o PackBits(DeflateBits(bytes)) \o BigEndian32(adler32(bytes))

(***************************************************************************)
(* base64.b64encode(...).decode("utf-8")                                   *)
(***************************************************************************)
B64Alphabet ==
    << "A","B","C","D","E","F","G","H","I","J","K","L","M","N","O","P",
       "Q","R","S","T","U","V","W","X","Y","Z","a","b","c","d","e","f",
       "g","h","i","j","k","l","m","n","o","p","q","r","s","t","u","v",
       "w","x","y","z","0","1","2","3","4","5","6","7","8","9","+","/" >>

B64Char(v) == B64Alphabet[v + 1]

\* one group of 1, 2 or 3 bytes as 4 characters, padded with "="
B64Group(g) ==
    LET b1 == g[1]
        b2 == IF Len(g) >= 2 THEN g[2] ELSE 0
        b3 == IF Len(g) >= 3 THEN g[3] ELSE 0
    IN  << B64Char(b1 \div 4),
           B64Char((b1 % 4) * 16 + b2 \div 16),
           IF Len(g) >= 2 THEN B64Char((b2 % 16) * 4 + b3 \div 64) ELSE "=",
           IF Len(g) >= 3 THEN B64Char(b3 % 64) ELSE "=" >>

b64encode(bytes) ==
    LET n == (Len(bytes) + 2) \div 3
    IN  Flatten([k \in 1..n |->
                    B64Group(SubSeq(bytes, 3*k - 2, Min(3*k, Len(bytes))))])

\* variant: an empty input short-cut to the empty text
compress_and_encode_empty(data) ==
    IF data = <<>> THEN <<>> ELSE b64encode(zlib_compress(data))

compress_and_encode(data) == b64encode(zlib_compress(data))

(***************************************************************************)
(* chunk_text                                                              *)
(***************************************************************************)
\* variant: the stop value included, as in range(0, len(text) + 1, chunk_size)
RECURSIVE RangeInclusive(_, _, _)
RangeInclusive(start, stop, step) ==
    IF start > stop THEN <<>> ELSE <<start>> \o RangeInclusive(start + step, stop, step)

\* Python's range(start, stop, step) for step > 0
RECURSIVE Range(_, _, _)
Range(start, stop, step) ==
    IF start >= stop THEN <<>> ELSE <<start>> \o Range(start + step, stop, step)

\* variant: one character too many, as in text[i:i+chunk_size+1]
SliceOverlap(text, a, b) == SubSeq(text, a + 1, Min(b + 1, Len(text)))

\* Python's text[a:b] for 0 <= a <= b: the end is clamped to len(text)
Slice(text, a, b) == SubSeq(text, a + 1, Min(b, Len(text)))

\* variant: only whole pieces, the shorter last piece dropped
chunk_text_whole_only(text, size) ==
    LET starts == Range(0, Len(text) - size + 1, size)
    IN  [k \in 1..Len(starts) |-> Slice(text, starts[k], starts[k] + size)]

chunk_text(text, size) ==
    LET starts == Range(0, Len(text), size)
    IN  [k \in 1..Len(starts) |-> Slice(text, starts[k], starts[k] + size)]


(***************************************************************************)
(* The document store                                                      *)
(***************************************************************************)
\* DocumentReference.set(fields): creates the document or replaces it whole
DocSet(coll, key, fields) ==
    [k \in DOMAIN coll \cup {key} |-> IF k = key THEN fields ELSE coll[k]]

\* variant: set() in place of update(), the other fields lost
DocUpdateStatusReplaces(coll, key, value) == DocSet(coll, key, [status |-> value])

\* DocumentReference.update({"status": value}) on an existing document
DocUpdateStatus(coll, key, value) == [coll EXCEPT ![key].status = value]

\* the indices of the chunk documents stored under files/{f}/chunks
ChunkIndices(f) == {k[2] : k \in {d \in DOMAIN chunk_docs : d[1] = f}}

NoFile == "none"

Init ==
    /\ files = <<>>
    /\ chunk_docs = <<>>
    /\ minted = {}
    /\ pc = [s \in Sessions |-> "idle"]
    /\ file_name = [s \in Sessions |-> ""]
    /\ file_bytes = [s \in Sessions |-> <<>>]
    /\ chunk_size = [s \in Sessions |-> 0]
    /\ chunks = [s \in Sessions |-> <<>>]
    /\ total_chunks = [s \in Sessions |-> 0]
    /\ file_id = [s \in Sessions |-> NoFile]
    /\ idx = [s \in Sessions |-> 0]
    /\ ct_text = <<>>
    /\ ct_size = 0
    /\ ct_out = [done |-> FALSE, pieces |-> <<>>]

(***************************************************************************)
(* send_file_to_firestore, called by the "Send file" button handler        *)
(***************************************************************************)
\* variant: an identifier that may have been returned before
SendAnyId(s, name, bytes, size) ==
    /\ pc[s] = "idle"
    /\ \E id \in FileIds :
          /\ minted' = minted \cup {id}
          /\ file_id' = [file_id EXCEPT ![s] = id]
    /\ file_name' = [file_name EXCEPT ![s] = name]
    /\ file_bytes' = [file_bytes EXCEPT ![s] = bytes]
    /\ chunk_size' = [chunk_size EXCEPT ![s] = size]
    /\ chunks' = [chunks EXCEPT ![s] = chunk_text(compress_and_encode(bytes), size)]
    /\ total_chunks' =
          [total_chunks EXCEPT ![s] = Len(chunk_text(compress_and_encode(bytes), size))]
    /\ idx' = [idx EXCEPT ![s] = 0]
    /\ pc' = [pc EXCEPT ![s] = "meta"]
    /\ UNCHANGED <<files, chunk_docs, ct_text, ct_size, ct_out>>

\* lines 67-70: encode, chunk, count, mint the identifier
Send(s, name, bytes, size) ==
    /\ pc[s] = "idle"
    /\ \E id \in FileIds \ minted :
          /\ minted' = minted \cup {id}
          /\ file_id' = [file_id EXCEPT ![s] = id]
    /\ file_name' = [file_name EXCEPT ![s] = name]
    /\ file_bytes' = [file_bytes EXCEPT ![s] = bytes]
    /\ chunk_size' = [chunk_size EXCEPT ![s] = size]
    /\ chunks' = [chunks EXCEPT ![s] = chunk_text(compress_and_encode(bytes), size)]
    /\ total_chunks' =
          [total_chunks EXCEPT ![s] = Len(chunk_text(compress_and_encode(bytes), size))]
    /\ idx' = [idx EXCEPT ![s] = 0]
    /\ pc' = [pc EXCEPT ![s] = "meta"]
    /\ UNCHANGED <<store, pure>>

\* the manifest document written by meta_ref.set, lines 74-78
Manifest(s) ==
    [file_name |-> file_name[s], total_chunks |-> total_chunks[s], status |-> "uploading"]

\* lines 73-78: meta_ref.set succeeds
SetMeta(s) ==
    /\ pc[s] = "meta"
    /\ files' = DocSet(files, file_id[s], Manifest(s))
    /\ pc' = [pc EXCEPT ![s] = "chunks"]
    /\ UNCHANGED <<chunk_docs, minted, locals, pure>>

\* the chunk document written in the loop, lines 84-86
ChunkDoc(s) == [data |-> chunks[s][idx[s] + 1]]

\* variant: documents numbered from 1, as with enumerate(chunks, 1)
SetChunkOneBased(s) ==
    /\ pc[s] = "chunks"
    /\ idx[s] < Len(chunks[s])
    /\ chunk_docs' = DocSet(chunk_docs, <<file_id[s], idx[s] + 1>>, ChunkDoc(s))
    /\ idx' = [idx EXCEPT ![s] = idx[s] + 1]
    /\ UNCHANGED <<files, minted, pc, file_name, file_bytes, chunk_size, chunks,
                   total_chunks, file_id, ct_text, ct_size, ct_out>>

\* lines 82-90: one iteration of the loop, the chunk's set succeeds
SetChunk(s) ==
    /\ pc[s] = "chunks"
    /\ idx[s] < Len(chunks[s])
    /\ chunk_docs' = DocSet(chunk_docs, <<file_id[s], idx[s]>>, ChunkDoc(s))
    /\ idx' = [idx EXCEPT ![s] = idx[s] + 1]
    /\ UNCHANGED <<files, minted, pc, file_name, file_bytes, chunk_size, chunks,
                   total_chunks, file_id, pure>>

\* variant: the status update not waiting for the end of the loop
MarkUploadedInLoop(s) ==
    /\ pc[s] = "chunks"
    /\ file_id[s] \in DOMAIN files
    /\ files' = DocUpdateStatus(files, file_id[s], "uploaded")
    /\ pc' = [pc EXCEPT ![s] = "done"]
    /\ UNCHANGED <<chunk_docs, minted, file_name, file_bytes, chunk_size, chunks,
                   total_chunks, file_id, idx, ct_text, ct_size, ct_out>>

\* lines 93-95 and 122: the loop is over, meta_ref.update succeeds, the
\* function returns and the handler reports success
MarkUploaded(s) ==
    /\ pc[s] = "chunks"
    /\ idx[s] = Len(chunks[s])
    /\ file_id[s] \in DOMAIN files
    /\ files' = DocUpdateStatus(files, file_id[s], "uploaded")
    /\ pc' = [pc EXCEPT ![s] = "done"]
    /\ UNCHANGED <<chunk_docs, minted, locals, pure>>

\* variant: the handler rolling the manifest to "failed"
WriteFailsMarksFailed(s) ==
    /\ pc[s] \in {"meta", "chunks"}
    /\ pc' = [pc EXCEPT ![s] = "failed"]
    /\ files' = IF file_id[s] \in DOMAIN files
                THEN DocUpdateStatus(files, file_id[s], "failed") ELSE files
    /\ UNCHANGED <<chunk_docs, minted, file_name, file_bytes, chunk_size, chunks,
                   total_chunks, file_id, idx, ct_text, ct_size, ct_out>>

\* a store write (set or update) raises: the exception leaves
\* send_file_to_firestore and is caught at lines 125-126
WriteFails(s) ==
    /\ pc[s] \in {"meta", "chunks"}
    /\ pc' = [pc EXCEPT ![s] = "failed"]
    /\ UNCHANGED <<store, minted, locals, pure>>

\* the script run is over; the session's next interaction runs it again
Rerun(s) ==
    /\ pc[s] \in {"done", "failed"}
    /\ pc' = [pc EXCEPT ![s] = "idle"]
    /\ file_name' = [file_name EXCEPT ![s] = ""]
    /\ file_bytes' = [file_bytes EXCEPT ![s] = <<>>]
    /\ chunk_size' = [chunk_size EXCEPT ![s] = 0]
    /\ chunks' = [chunks EXCEPT ![s] = <<>>]
    /\ total_chunks' = [total_chunks EXCEPT ![s] = 0]
    /\ file_id' = [file_id EXCEPT ![s] = NoFile]
    /\ idx' = [idx EXCEPT ![s] = 0]
    /\ UNCHANGED <<store, minted, pure>>

Next ==
    \E s \in Sessions :
        \/ \E up \in Uploads, size \in ChunkSizes : Send(s, up.name, up.bytes, size)
        \/ SetMeta(s)
        \/ SetChunk(s)
        \/ MarkUploaded(s)
        \/ WriteFails(s)
        \/ Rerun(s)

Spec == Init /\ [][Next]_vars

(***************************************************************************)
(* chunk_text on its own: any text, any chunk size                         *)
(***************************************************************************)
InitChunk ==
    /\ files = <<>>
    /\ chunk_docs = <<>>
    /\ minted = {}
    /\ pc = [s \in Sessions |-> "idle"]
    /\ file_name = [s \in Sessions |-> ""]
    /\ file_bytes = [s \in Sessions |-> <<>>]
    /\ chunk_size = [s \in Sessions |-> 0]
    /\ chunks = [s \in Sessions |-> <<>>]
    /\ total_chunks = [s \in Sessions |-> 0]
    /\ file_id = [s \in Sessions |-> NoFile]
    /\ idx = [s \in Sessions |-> 0]
    /\ ct_text \in SeqsUpTo(TextChars, MaxTextLen)
    /\ ct_size \in 1..MaxPureChunk
    /\ ct_out = [done |-> FALSE, pieces |-> <<>>]

ApplyChunkText ==
    /\ ~ct_out.done
    /\ ct_out' = [done |-> TRUE, pieces |-> chunk_text(ct_text, ct_size)]
    /\ UNCHANGED <<store, minted, pc, locals, ct_text, ct_size>>

NextChunk == ApplyChunkText

SpecChunk == InitChunk /\ [][NextChunk]_vars

(***************************************************************************)
(* The receiver's side of the pipeline: base64.b64decode, zlib.decompress  *)
(***************************************************************************)
B64Index(c) == CHOOSE v \in 0..63 : B64Alphabet[v + 1] = c

\* the bytes of one group of 4 characters
B64DecodeGroup(g) ==
    LET v(i) == IF g[i] = "=" THEN 0 ELSE B64Index(g[i])
        n == IF g[3] = "=" THEN 1 ELSE IF g[4] = "=" THEN 2 ELSE 3
        all == << v(1) * 4 + v(2) \div 16,
                  (v(2) % 16) * 16 + v(3) \div 4,
                  (v(3) % 4) * 64 + v(4) >>
    IN  SubSeq(all, 1, n)

\* what a failed decode returns here: no byte string
DecodeError == <<-1>>

b64decode(text) ==
    IF Len(text) % 4 # 0 THEN DecodeError
    ELSE Flatten([k \in 1..(Len(text) \div 4) |->
                     B64DecodeGroup(SubSeq(text, 4*k - 3, 4*k))])

UnpackBits(bytes) ==
    Flatten([k \in 1..Len(bytes) |-> [j \in 1..8 |-> (bytes[k] \div Pow2(j - 1)) % 2]])

\* the n bits from position pos on, as a Huffman code (first bit most significant)
RECURSIVE CodeAt(_, _, _)
CodeAt(bits, pos, n) ==
    IF n = 0 THEN 0 ELSE 2 * CodeAt(bits, pos, n - 1) + bits[pos + n - 1]

\* literals of a fixed-Huffman block up to its end-of-block code
RECURSIVE InflateFixed(_, _)
InflateFixed(bits, pos) ==
    IF pos + 6 > Len(bits) THEN [ok |-> FALSE, out |-> <<>>, next |-> pos]
    ELSE IF CodeAt(bits, pos, 7) = 0 THEN [ok |-> TRUE, out |-> <<>>, next |-> pos + 7]
    ELSE IF pos + 7 > Len(bits) THEN [ok |-> FALSE, out |-> <<>>, next |-> pos]
    ELSE IF CodeAt(bits, pos, 8) >= 48 /\ CodeAt(bits, pos, 8) <= 191
         THEN LET r == InflateFixed(bits, pos + 8)
              IN  [r EXCEPT !.out = <<CodeAt(bits, pos, 8) - 48>> \o r.out]
    ELSE IF pos + 8 > Len(bits) THEN [ok |-> FALSE, out |-> <<>>, next |-> pos]
    ELSE IF CodeAt(bits, pos, 9) >= 400
         THEN LET r == InflateFixed(bits, pos + 9)
              IN  [r EXCEPT !.out = <<CodeAt(bits, pos, 9) - 400 + 144>> \o r.out]
    ELSE [ok |-> FALSE, out |-> <<>>, next |-> pos]

zlib_decompress(bytes) ==
    IF Len(bytes) < 8 \/ bytes = DecodeError THEN DecodeError
    ELSE IF bytes[1] # 120 \/ bytes[2] # 218 THEN DecodeError
    ELSE LET bits == UnpackBits(SubSeq(bytes, 3, Len(bytes) - 4))
             r == InflateFixed(bits, 4)
         IN  IF /\ SubSeq(bits, 1, 3) = <<1, 1, 0>>
                /\ r.ok
                /\ (r.next + 6) \div 8 = Len(bytes) - 6
                /\ SubSeq(bytes, Len(bytes) - 3, Len(bytes)) = BigEndian32(adler32(r.out))
             THEN r.out
             ELSE DecodeError

(***************************************************************************)
(* Notions the properties below are stated in                              *)
(***************************************************************************)
\* the session is inside send_file_to_firestore with writes still to issue
Sending(s) == pc[s] \in {"meta", "chunks"}

IndicesIn(docs, f) == {k[2] : k \in {d \in DOMAIN docs : d[1] = f}}

\* the chunk documents of f, as index -> document
ChunksIn(docs, f) == [i \in IndicesIn(docs, f) |-> docs[<<f, i>>]]

CeilDiv(a, b) == (a + b - 1) \div b

\* the data of f's chunk documents 0..n-1 concatenated in index order,
\* n the number of documents present
StoredText(f) ==
    LET n == Cardinality(ChunkIndices(f))
    IN  IF ChunkIndices(f) = 0..(n - 1)
        THEN Flatten([k \in 1..n |-> chunk_docs[<<f, k - 1>>].data])
        ELSE <<"?">>

\* the manifest fields that the first write fixes
Fixed(doc) ==
    IF {"file_name", "total_chunks"} \subseteq DOMAIN doc
    THEN <<doc.file_name, doc.total_chunks>> ELSE <<>>

(***************************************************************************)
(* C1: the manifest of a transfer is created with status "uploading" while *)
(* no chunk of it is stored; a chunk is written only under a manifest in   *)
(* status "uploading"; the status becomes "uploaded" only in a step taken  *)
(* with all total_chunks chunk writes done, and no session still has a     *)
(* write to issue for a transfer whose status is "uploaded".               *)
(***************************************************************************)
C1_Step ==
    \A f \in FileIds :
        /\ (f \notin DOMAIN files /\ f \in DOMAIN files')
              => files'[f].status = "uploading" /\ IndicesIn(chunk_docs', f) = {}
        /\ ChunksIn(chunk_docs', f) # ChunksIn(chunk_docs, f)
              => f \in DOMAIN files /\ files[f].status = "uploading"
        /\ (f \in DOMAIN files /\ f \in DOMAIN files'
              /\ files[f].status # "uploaded" /\ files'[f].status = "uploaded")
              => IndicesIn(chunk_docs, f) = 0..(files[f].total_chunks - 1)
        /\ (f \in DOMAIN files' /\ files'[f].status = "uploaded")
              => \A s \in Sessions : file_id'[s] = f => ~Sending(s)'

\* C1: every step keeps the order manifest "uploading", chunk writes, "uploaded"
C1_UploadingBeforeChunksUploadedAfter == [][C1_Step]_vars

C1_Witness ==
    \E f \in DOMAIN files :
        /\ files[f].status = "uploaded"
        /\ files[f].total_chunks >= 2
        /\ Cardinality(ChunkIndices(f)) = files[f].total_chunks

(***************************************************************************)
(* C2: under every manifest with status "uploaded" and total_chunks = N    *)
(* the chunk documents are exactly those with indices 0..N-1, and each     *)
(* holds a non-empty data string.                                          *)
(***************************************************************************)
C2_UploadedHasExactlyItsChunks ==
    \A f \in DOMAIN files :
        files[f].status = "uploaded" =>
            /\ ChunkIndices(f) = 0..(files[f].total_chunks - 1)
            /\ \A i \in ChunkIndices(f) : Len(chunk_docs[<<f, i>>].data) > 0

C2_Witness ==
    \E f \in DOMAIN files :
        /\ files[f].status = "uploaded"
        /\ files[f].total_chunks = 3
        /\ ChunkIndices(f) = {0, 1, 2}

(***************************************************************************)
(* C3: chunk_text(T, chunk_size) returns ceil(len(T) / chunk_size) pieces, *)
(* every piece but the last of length chunk_size, the last of length       *)
(* 1..chunk_size.                                                          *)
(***************************************************************************)
C3_ChunkCountAndLengths ==
    ct_out.done =>
        LET n == Len(ct_out.pieces)
        IN  /\ n = CeilDiv(Len(ct_text), ct_size)
            /\ \A k \in 1..(n - 1) : Len(ct_out.pieces[k]) = ct_size
            /\ n > 0 => /\ Len(ct_out.pieces[n]) >= 1
                        /\ Len(ct_out.pieces[n]) <= ct_size

C3_Witness ==
    /\ ct_out.done
    /\ Len(ct_out.pieces) = 3
    /\ Len(ct_out.pieces[3]) < ct_size

(***************************************************************************)
(* C4: after a send of B that completed, the stored chunk data of the      *)
(* transfer concatenated in index order is compress_and_encode(B), and     *)
(* base64-decoding and decompressing it gives B.                           *)
(***************************************************************************)
C4_RoundTrip ==
    \A s \in Sessions :
        pc[s] = "done" =>
            /\ StoredText(file_id[s]) = compress_and_encode(file_bytes[s])
            /\ zlib_decompress(b64decode(StoredText(file_id[s]))) = file_bytes[s]

C4_Witness ==
    \E s \in Sessions :
        /\ pc[s] = "done"
        /\ file_bytes[s] # <<>>
        /\ total_chunks[s] >= 2
        /\ zlib_decompress(b64decode(StoredText(file_id[s]))) = file_bytes[s]

(***************************************************************************)
(* C5: once a write after the manifest write has failed, the send issues   *)
(* no further write: the failing step leaves the store as it is, and from  *)
(* then on the transfer's manifest stays as it is, in status "uploading",  *)
(* and its chunk documents stay in the store unchanged; no manifest ever   *)
(* gets the status "failed".                                               *)
(***************************************************************************)
ManifestIn(fs, f) == IF f \in DOMAIN fs THEN <<fs[f]>> ELSE <<>>

\* a transfer left behind: manifest in "uploading", no session sending it
Abandoned(f) ==
    /\ f \in DOMAIN files
    /\ files[f].status = "uploading"
    /\ \A s \in Sessions : file_id[s] = f => ~Sending(s)

C5_Step ==
    /\ \A s \in Sessions :
          (Sending(s) /\ pc'[s] = "failed") => files' = files /\ chunk_docs' = chunk_docs
    /\ \A f \in FileIds :
          Abandoned(f) =>
              /\ ManifestIn(files', f) = ManifestIn(files, f)
              /\ ChunksIn(chunk_docs', f) = ChunksIn(chunk_docs, f)
              /\ Abandoned(f)'
    /\ \A f \in DOMAIN files' : files'[f].status \in {"uploading", "uploaded"}

\* C5: every step leaves a failed send's manifest "uploading" and its chunks in place
C5_FailedSendStaysUploading == [][C5_Step]_vars

\* a transfer that failed after its first chunk, its session since back for
\* another run
C5_Witness ==
    \E f \in DOMAIN files :
        /\ Abandoned(f)
        /\ ChunkIndices(f) # {}
        /\ Cardinality(ChunkIndices(f)) < files[f].total_chunks
        /\ \A s \in Sessions : file_id[s] # f

(***************************************************************************)
(* C6: every send gets a file_id no other send has or had; a step changes  *)
(* the manifest or a chunk document of a transfer only when it is a step   *)
(* of the session sending that transfer; and a send that completes leaves  *)
(* exactly its own chunks 0..total_chunks-1 under its file_id.             *)
(***************************************************************************)
C6_Step ==
    /\ \A s \in Sessions :
          (pc[s] = "idle" /\ pc'[s] # "idle") =>
              /\ file_id'[s] \in FileIds \ minted
              /\ file_id'[s] \notin DOMAIN files
              /\ IndicesIn(chunk_docs, file_id'[s]) = {}
              /\ \A t \in Sessions \ {s} : file_id'[t] # file_id'[s]
    /\ \A f \in FileIds :
          (\/ ManifestIn(files', f) # ManifestIn(files, f)
           \/ ChunksIn(chunk_docs', f) # ChunksIn(chunk_docs, f))
          => \E s \in Sessions :
                /\ file_id[s] = f
                /\ Sending(s)
                /\ pc'[s] # pc[s] \/ idx'[s] # idx[s]
                /\ \A t \in Sessions \ {s} : pc'[t] = pc[t] /\ idx'[t] = idx[t]
    /\ \A s \in Sessions :
          (pc[s] # "done" /\ pc'[s] = "done") =>
              /\ IndicesIn(chunk_docs', file_id[s]) = 0..(total_chunks[s] - 1)
              /\ \A i \in 0..(total_chunks[s] - 1) :
                    chunk_docs'[<<file_id[s], i>>].data = chunks[s][i + 1]
              /\ files'[file_id[s]].total_chunks = total_chunks[s]

\* C6: every step mints a fresh file_id or touches only the acting send's documents
C6_TransfersAreIndependent == [][C6_Step]_vars

\* two sends interleaved, both past their first chunk
C6_Witness ==
    \E s, t \in Sessions :
        /\ s # t
        /\ pc[s] = "chunks" /\ idx[s] >= 1
        /\ pc[t] = "chunks" /\ idx[t] >= 1
        /\ file_id[s] # file_id[t]
        /\ ChunkIndices(file_id[s]) # {} /\ ChunkIndices(file_id[t]) # {}

(***************************************************************************)
(* C7 as stated: a completed send of the empty byte string has written no  *)
(* chunk document and its manifest records total_chunks = 0.               *)
(***************************************************************************)
C7_EmptyInputZeroChunks ==
    \A s \in Sessions :
        (pc[s] = "done" /\ file_bytes[s] = <<>>) =>
            /\ total_chunks[s] = 0
            /\ ChunkIndices(file_id[s]) = {}
            /\ files[file_id[s]].total_chunks = 0
            /\ files[file_id[s]].status = "uploaded"

(***************************************************************************)
(* C7 amended: the encoded text of the empty byte string is the 12         *)
(* characters eNoDAAAAAAE=, so a completed send of it has written          *)
(* ceil(12 / chunk_size) >= 1 chunk documents holding that text, and its   *)
(* manifest records that count and the status "uploaded".                  *)
(***************************************************************************)
C7_EmptyInputEncodedText ==
    \A s \in Sessions :
        (pc[s] = "done" /\ file_bytes[s] = <<>>) =>
            LET f == file_id[s]
            IN  /\ StoredText(f) = <<"e","N","o","D","A","A","A","A","A","A","E","=">>
                /\ files[f].total_chunks = CeilDiv(12, chunk_size[s])
                /\ files[f].total_chunks >= 1
                /\ ChunkIndices(f) = 0..(files[f].total_chunks - 1)
                /\ files[f].status = "uploaded"

C7_Witness ==
    \E s \in Sessions :
        /\ pc[s] = "done"
        /\ file_bytes[s] = <<>>
        /\ files[file_id[s]].status = "uploaded"
        /\ ChunkIndices(file_id[s]) # {}

(***************************************************************************)
(* C8 as stated: a send of bytes shorter than chunk_size has exactly one   *)
(* chunk.                                                                  *)
(***************************************************************************)
C8_SmallInputOneChunk ==
    \A s \in Sessions :
        (pc[s] # "idle" /\ Len(file_bytes[s]) < chunk_size[s]) => total_chunks[s] = 1

(***************************************************************************)
(* C8 amended: a send has exactly one chunk when the encoded text of its   *)
(* bytes is no longer than chunk_size; when the encoded text is longer,    *)
(* also for bytes shorter than chunk_size, it has                          *)
(* ceil(len(encoded) / chunk_size) > 1 chunks.                             *)
(***************************************************************************)
C8_OneChunkIffEncodedFits ==
    \A s \in Sessions :
        pc[s] # "idle" =>
            LET n == Len(compress_and_encode(file_bytes[s]))
            IN  /\ n <= chunk_size[s] => total_chunks[s] = 1
                /\ n > chunk_size[s] =>
                      total_chunks[s] = CeilDiv(n, chunk_size[s]) /\ total_chunks[s] > 1

C8_Witness ==
    \E s, t \in Sessions :
        /\ pc[s] = "done" /\ pc[t] = "done"
        /\ Len(file_bytes[s]) < chunk_size[s] /\ total_chunks[s] = 1
        /\ Len(file_bytes[t]) < chunk_size[t] /\ total_chunks[t] > 1

(***************************************************************************)
(* C9 as stated: every manifest carries, with the file name and            *)
(* total_chunks, the SHA-256 digest and the size of the original bytes.    *)
(***************************************************************************)
C9_ManifestCarriesChecksum ==
    \A f \in DOMAIN files :
        {"file_name", "total_chunks", "sha256", "size_bytes"} \subseteq DOMAIN files[f]

(***************************************************************************)
(* C10: in every step the chunk documents of a transfer stay as they are   *)
(* or gain one document, the indices present after the step are 0..k-1     *)
(* for some k <= total_chunks, a document once written keeps its data, and *)
(* a manifest once written stays and keeps its file_name and total_chunks. *)
(***************************************************************************)
C10_Step ==
    \A f \in FileIds :
        LET before == IndicesIn(chunk_docs, f)
            after  == IndicesIn(chunk_docs', f)
        IN  /\ after = 0..(Cardinality(after) - 1)
            /\ before \subseteq after
            /\ Cardinality(after) <= Cardinality(before) + 1
            /\ \A i \in before : chunk_docs'[<<f, i>>] = chunk_docs[<<f, i>>]
            /\ after # {} => f \in DOMAIN files'
            /\ f \in DOMAIN files =>
                  /\ f \in DOMAIN files'
                  /\ Fixed(files[f]) # <<>>
                  /\ Fixed(files'[f]) = Fixed(files[f])
            /\ f \in DOMAIN files' => Cardinality(after) <= files'[f].total_chunks

\* C10: every step keeps the stored chunks a prefix 0..k-1 and the manifest's name and count
C10_ChunksArePrefixManifestFixed == [][C10_Step]_vars

\* after a failure: a proper, non-empty prefix of the chunks is stored
C10_Witness ==
    \E s \in Sessions :
        /\ pc[s] = "failed"
        /\ file_id[s] \in DOMAIN files
        /\ ChunkIndices(file_id[s]) = {0, 1}
        /\ files[file_id[s]].total_chunks = 3

=============================================================================
